---------------------------- MODULE Spec2Model ----------------------------
(***************************************************************************)
(* A model of the Yahtzee solver of src/analyser.py: the category scorer   *)
(* (DiceRoll), the reroll transition tensor (transition_probability,       *)
(* gen_tensors), best-category selection (best_score), the per-state       *)
(* kernel (score_state) and the DP driver (evaluate_forward_values).       *)
(*                                                                         *)
(* Probabilities are kept exactly, as integers scaled by 6^5: the entry    *)
(* multinomial(need) / 6^k of the code is the integer                      *)
(* multinomial(need) * 6^(5-k) here.                                       *)
(***************************************************************************)
EXTENDS Integers, Sequences, FiniteSets, TLC

VARIABLES pc, roll, hold, state, table, scores, upper, out, forward_values,
          pos, reads, credited, rawUpper

vars == <<pc, roll, hold, state, table, scores, upper, out, forward_values,
          pos, reads, credited, rawUpper>>

(***************************************************************************)
(* Module-level constants of analyser.py                                   *)
(***************************************************************************)
NumDice == 5
NumFaces == 6
NumCategories == 13
UpperCap == 63
UpperBonus == 35

die_spots == 1..NumFaces

\* categories, by position in the list: 0..5 Ones..Sixes, 6 Three of a kind,
\* 7 Four of a kind, 8 Full house, 9 Small straight, 10 Large straight,
\* 11 Yahtzee, 12 Chance
categories == 0..(NumCategories - 1)

\* upper_categories: category -> the pip it counts
upper_categories == [c \in 0..5 |-> c + 1]

small_straights == {1..4, 2..5, 3..6}
large_straights == {1..5, 2..6}

\* combinations_with_replacement(die_spots, 5): the non-decreasing 5-tuples
Hands ==
    UNION {UNION {UNION {UNION {{<<a, b, c, d, e>> : e \in d..NumFaces}
        : d \in c..NumFaces} : c \in b..NumFaces} : b \in a..NumFaces} : a \in die_spots}

\* the order in which combinations_with_replacement yields them (lexicographic)
LexLE(p, q) ==
    \/ p = q
    \/ \E i \in 1..NumDice : p[i] < q[i] /\ \A j \in 1..(i - 1) : p[j] = q[j]

\* the tuple enumerate(combinations_with_replacement(...)) gives index 0
FirstHand == CHOOSE p \in Hands : \A q \in Hands : LexLE(p, q)

(***************************************************************************)
(* Python built-ins used by the scorer                                     *)
(***************************************************************************)
RECURSIVE SumSeq(_)
SumSeq(s) == IF s = <<>> THEN 0 ELSE Head(s) + SumSeq(Tail(s))

\* tuple.count(x)
Count(s, x) == Len(SelectSeq(s, LAMBDA y : y = x))

\* [x for x in s if x == k]
SelectEq(s, k) == SelectSeq(s, LAMBDA x : x = k)

MaxOf(S) == CHOOSE m \in S : \A x \in S : x <= m

\* sorted(counts)[-1] and sorted(counts)[-2] of a list given as a function on die_spots
Largest(cnt) == MaxOf({cnt[x] : x \in die_spots})
SecondLargest(cnt) ==
    LET top == CHOOSE x \in die_spots : cnt[x] = Largest(cnt)
    IN  MaxOf({cnt[x] : x \in die_spots \ {top}})

(***************************************************************************)
(* DiceRoll.score_as and DiceRoll.upper_score                              *)
(***************************************************************************)
score_as_yahtzee_sum(pips, cat) ==
    LET counts == [x \in die_spots |-> Count(pips, x)]
        hasStraight(strts) == \E strt \in strts : \A x \in strt : Count(pips, x) > 0
    IN  IF cat \in DOMAIN upper_categories
          THEN SumSeq(SelectEq(pips, upper_categories[cat]))
        ELSE IF cat = 6 THEN (IF Largest(counts) >= 3 THEN SumSeq(pips) ELSE 0)
        ELSE IF cat = 7 THEN (IF Largest(counts) >= 4 THEN SumSeq(pips) ELSE 0)
        ELSE IF cat = 8
          THEN (IF SecondLargest(counts) = 2 /\ Largest(counts) = 3 THEN 25 ELSE 0)
        ELSE IF cat \in {9, 10}
          THEN (IF hasStraight(IF cat = 9 THEN small_straights ELSE large_straights)
                  THEN 30 ELSE 0)
        ELSE IF cat = 11 THEN (IF Largest(counts) = 5 THEN SumSeq(pips) ELSE 0)
        ELSE SumSeq(pips)

score_as(pips, cat) ==
    LET counts == [x \in die_spots |-> Count(pips, x)]
        hasStraight(strts) == \E strt \in strts : \A x \in strt : Count(pips, x) > 0
    IN  IF cat \in DOMAIN upper_categories
          THEN SumSeq(SelectEq(pips, upper_categories[cat]))
        ELSE IF cat = 6 THEN (IF Largest(counts) >= 3 THEN SumSeq(pips) ELSE 0)
        ELSE IF cat = 7 THEN (IF Largest(counts) >= 4 THEN SumSeq(pips) ELSE 0)
        ELSE IF cat = 8
          THEN (IF Largest(counts) = 3 /\ SecondLargest(counts) = 2 THEN 25 ELSE 0)
        ELSE IF cat = 9 THEN (IF hasStraight(small_straights) THEN 30 ELSE 0)
        ELSE IF cat = 10 THEN (IF hasStraight(large_straights) THEN 40 ELSE 0)
        ELSE IF cat = 11 THEN (IF Largest(counts) = 5 THEN 50 ELSE 0)
        ELSE SumSeq(pips)

DiceRoll_upper_score(pips, cat) ==
    IF cat \in DOMAIN upper_categories
      THEN SumSeq(SelectEq(pips, upper_categories[cat]))
      ELSE 0

\* the roll-score tables every DiceRoll object carries (self.scores, self.upper)
Thirteen(F(_)) ==
    <<F(0), F(1), F(2), F(3), F(4), F(5), F(6), F(7), F(8), F(9), F(10), F(11), F(12)>>
SixFrom(F(_), lo) ==
    LET G(x) == IF x < lo THEN <<>> ELSE F(x)
    IN  <<G(1), G(2), G(3), G(4), G(5), G(6)>>

\* DiceRoll(pips): the object's scores and upper dictionaries (position cat + 1)
DiceRoll(pips) ==
    [scores |-> Thirteen(LAMBDA cat : score_as(pips, cat)),
     upper  |-> Thirteen(LAMBDA cat : DiceRoll_upper_score(pips, cat))]

\* self.roll_lookup: one DiceRoll per sorted roll, built once
roll_lookup ==
    SixFrom(LAMBDA a :
      SixFrom(LAMBDA b :
        SixFrom(LAMBDA c :
          SixFrom(LAMBDA d :
            SixFrom(LAMBDA e : DiceRoll(<<a, b, c, d, e>>), d), c), b), a), 1)

\* self.roll_lookup[roll].scores[cat] and .upper[cat]
ScoreOf(r, c) == roll_lookup[r[1]][r[2]][r[3]][r[4]][r[5]].scores[c + 1]
UpperOf(r, c) == roll_lookup[r[1]][r[2]][r[3]][r[4]][r[5]].upper[c + 1]

Idle == "idle"

(***************************************************************************)
(* Specification of the scorer: gen_roll_lookup builds one DiceRoll per    *)
(* hand; constructing it fills self.scores and self.upper.                 *)
(***************************************************************************)
InitScore ==
    /\ pc = "new"
    /\ roll \in Hands
    /\ hold = Idle /\ state = 0 /\ table = Idle
    /\ scores = Idle /\ upper = Idle /\ out = Idle
    /\ forward_values = << >> /\ pos = 0 /\ reads = {}
    /\ credited = 0 /\ rawUpper = 0

\* DiceRoll.__init__(pips)
DiceRollInit ==
    /\ pc = "new"
    /\ scores' = [cat \in categories |-> DiceRoll(roll).scores[cat + 1]]
    /\ upper' = [cat \in categories |-> DiceRoll(roll).upper[cat + 1]]
    /\ pc' = "built"
    /\ UNCHANGED <<roll, hold, state, table, out, forward_values, pos, reads,
                   credited, rawUpper>>

NextScore == DiceRollInit

SpecScore == InitScore /\ [][NextScore]_vars

(***************************************************************************)
(* The deterministic scoring table, stated on the multiset of pips         *)
(***************************************************************************)
Mult(p, v) == Cardinality({i \in 1..NumDice : p[i] = v})
Faces(p) == {p[i] : i \in 1..NumDice}
PipTotal(p) == p[1] + p[2] + p[3] + p[4] + p[5]

TableScore(p, c) ==
    CASE c \in 0..5 -> (c + 1) * Mult(p, c + 1)
      [] c = 6  -> IF \E v \in die_spots : Mult(p, v) >= 3 THEN PipTotal(p) ELSE 0
      [] c = 7  -> IF \E v \in die_spots : Mult(p, v) >= 4 THEN PipTotal(p) ELSE 0
      [] c = 8  -> IF \E v, w \in die_spots : v # w /\ Mult(p, v) = 3 /\ Mult(p, w) = 2
                     THEN 25 ELSE 0
      [] c = 9  -> IF \/ {1, 2, 3, 4} \subseteq Faces(p)
                      \/ {2, 3, 4, 5} \subseteq Faces(p)
                      \/ {3, 4, 5, 6} \subseteq Faces(p)
                     THEN 30 ELSE 0
      [] c = 10 -> IF Faces(p) = {1, 2, 3, 4, 5} \/ Faces(p) = {2, 3, 4, 5, 6}
                     THEN 40 ELSE 0
      [] c = 11 -> IF Cardinality(Faces(p)) = 1 THEN 50 ELSE 0
      [] c = 12 -> PipTotal(p)

\* C5: for each of the 252 hands and each of the 13 categories, the score a
\* DiceRoll stores is the value of the deterministic table (upper: sum of
\* matching pips; three/four of a kind: total iff multiplicity >= 3 / >= 4;
\* full house 25; small straight 30; large straight 40; Yahtzee 50; chance:
\* total), and the upper contribution is the score for categories 0..5 and 0
\* for the others.
C5_ScoreTable ==
    pc = "built" =>
        \A c \in categories :
            /\ scores[c] = TableScore(roll, c)
            /\ upper[c] = IF c \in 0..5 THEN TableScore(roll, c) ELSE 0

\* a large straight has been scored 40 and a Yahtzee 50 by a built DiceRoll
C5_Witness ==
    /\ pc = "built"
    /\ \/ roll = <<2, 3, 4, 5, 6>> /\ scores[10] = 40 /\ scores[9] = 30
       \/ roll = <<6, 6, 6, 6, 6>> /\ scores[11] = 50 /\ upper[5] = 30


(***************************************************************************)
(* multinomial, transition_probability and gen_tensors                     *)
(***************************************************************************)
\* 6^5: every probability is kept as the integer  probability * Scale
Scale == NumFaces ^ NumDice

\* the inner loop of multinomial: for j in range(1, a+1): res *= i; res //= j; i += 1
\* acc = <<res, i>>
RECURSIVE multinomial_inner_no_div(_, _, _)
multinomial_inner_no_div(acc, j, a) ==
    IF j > a THEN acc
    ELSE multinomial_inner_no_div(<<acc[1] * acc[2], acc[2] + 1>>, j + 1, a)

RECURSIVE multinomial_inner(_, _, _)
multinomial_inner(acc, j, a) ==
    IF j > a THEN acc
    ELSE multinomial_inner(<<(acc[1] * acc[2]) \div j, acc[2] + 1>>, j + 1, a)

\* the outer loop: for a in lst
RECURSIVE multinomial_outer(_, _, _)
multinomial_outer(acc, k, lst) ==
    IF k > Len(lst) THEN acc
    ELSE multinomial_outer(multinomial_inner(acc, 1, lst[k]), k + 1, lst)

multinomial(lst) == multinomial_outer(<<1, 1>>, 1, lst)[1]

\* [s.count(x) for x in die_spots], as a list
CountsOf(s) == <<Count(s, 1), Count(s, 2), Count(s, 3), Count(s, 4), Count(s, 5), Count(s, 6)>>

\* [x for x, h in zip(R, hold) if h]
RECURSIVE KeptFrom(_, _, _)
KeptFrom(R, held, i) ==
    IF i > Len(R) THEN <<>>
    ELSE (IF held[i] THEN <<R[i]>> ELSE <<>>) \o KeptFrom(R, held, i + 1)

\* need_counts = S_counts - kept_counts
NeedCounts(S_counts, kept_counts) ==
    <<S_counts[1] - kept_counts[1], S_counts[2] - kept_counts[2],
      S_counts[3] - kept_counts[3], S_counts[4] - kept_counts[4],
      S_counts[5] - kept_counts[5], S_counts[6] - kept_counts[6]>>

AnyNegative(need_counts) ==
    \/ need_counts[1] < 0 \/ need_counts[2] < 0 \/ need_counts[3] < 0
    \/ need_counts[4] < 0 \/ need_counts[5] < 0 \/ need_counts[6] < 0

\* if (need_counts < 0).any(): return 0
\* else: return multinomial(need_counts) / 6.0 ** sum(need_counts)     (times Scale)
probability_of(need_counts) ==
    IF AnyNegative(need_counts)
      THEN 0
      ELSE multinomial(need_counts) * NumFaces ^ (NumDice - SumSeq(need_counts))

transition_probability(held, R, T) ==
    probability_of(NeedCounts(CountsOf(T), CountsOf(KeptFrom(R, held, 1))))

NumHolds == 2 ^ NumDice
HoldIndices == 0..(NumHolds - 1)

\* the tuple enumerate(product([False, True], repeat=5)) gives index h:
\* the last position varies fastest
HoldOf_true_first(h) ==
    <<(h \div 16) % 2 = 0, (h \div 8) % 2 = 0, (h \div 4) % 2 = 0, (h \div 2) % 2 = 0, h % 2 = 0>>

HoldOf(h) ==
    <<(h \div 16) % 2 = 1, (h \div 8) % 2 = 1, (h \div 4) % 2 = 1, (h \div 2) % 2 = 1, h % 2 = 1>>

\* self.prop_tensor[hold_index, R_index, S_index], times Scale
prop_tensor(h, R, T) == transition_probability(HoldOf(h), R, T)

\* self.weight_vector = self.prop_tensor[0, 0, :], times Scale
weight_vector(s) == prop_tensor(0, FirstHand, s)

\* the sum of f over the 252 hands, in the order the code enumerates them
SumFrom(F(_), lo) ==
    LET G(x) == IF x < lo THEN 0 ELSE F(x)
    IN  G(1) + G(2) + G(3) + G(4) + G(5) + G(6)

SumHands(F(_)) ==
    SumFrom(LAMBDA a :
      SumFrom(LAMBDA b :
        SumFrom(LAMBDA c :
          SumFrom(LAMBDA d :
            SumFrom(LAMBDA e : F(<<a, b, c, d, e>>), d), c), b), a), 1)

SumOverHands(f) == SumHands(LAMBDA s : f[s])

(***************************************************************************)
(* Specification of gen_tensors: one iteration of its loop over            *)
(* (hold_index, R) fills the row prop_tensor[hold_index, R_index, :];      *)
(* the weight vector is copied from the row [0, 0, :].                     *)
(***************************************************************************)
InitTensor ==
    /\ pc = "gen"
    /\ hold \in HoldIndices
    /\ roll \in Hands
    /\ state = 0 /\ table = Idle
    /\ scores = Idle /\ upper = Idle /\ out = Idle
    /\ forward_values = << >> /\ pos = 0 /\ reads = {}
    /\ credited = 0 /\ rawUpper = 0

GenRow ==
    /\ pc = "gen"
    /\ table' = [s \in Hands |-> prop_tensor(hold, roll, s)]
    /\ pc' = "row"
    /\ UNCHANGED <<roll, hold, state, scores, upper, out, forward_values, pos, reads,
                   credited, rawUpper>>

NextTensor == GenRow

SpecTensor == InitTensor /\ [][NextTensor]_vars

RECURSIVE Factorial(_)
Factorial(n) == IF n <= 0 THEN 1 ELSE n * Factorial(n - 1)

\* k! / prod need[v]!
TrueMultinomial(need) ==
    Factorial(need[1] + need[2] + need[3] + need[4] + need[5] + need[6])
      \div (Factorial(need[1]) * Factorial(need[2]) * Factorial(need[3])
            * Factorial(need[4]) * Factorial(need[5]) * Factorial(need[6]))

\* the pips of R at the held positions, as multiplicities
KeptMult(held, R, v) == Cardinality({i \in 1..NumDice : held[i] /\ R[i] = v})
NeedOf(held, R, s) ==
    <<Mult(s, 1) - KeptMult(held, R, 1), Mult(s, 2) - KeptMult(held, R, 2),
      Mult(s, 3) - KeptMult(held, R, 3), Mult(s, 4) - KeptMult(held, R, 4),
      Mult(s, 5) - KeptMult(held, R, 5), Mult(s, 6) - KeptMult(held, R, 6)>>
Need(h, R, s) == NeedOf(HoldOf(h), R, s)
Rerolled(h) == Cardinality({i \in 1..NumDice : ~HoldOf(h)[i]})

MultVec(s) == <<Mult(s, 1), Mult(s, 2), Mult(s, 3), Mult(s, 4), Mult(s, 5), Mult(s, 6)>>

\* multinomial(need) * 6^(5-k) where no need[v] is negative, 0 elsewhere
ExactOf(need, k) ==
    IF \E v \in die_spots : need[v] < 0
      THEN 0
      ELSE TrueMultinomial(need) * NumFaces ^ (NumDice - k)
ExactEntry(h, R, s) == ExactOf(Need(h, R, s), Rerolled(h))

\* C8: for each of the 32 hold patterns h and each of the 252 hands r, the
\* entries P[h, r, s] are multinomial(need) / 6^k where no need[v] is negative
\* and 0 elsewhere, and they sum to 1 over the 252 hands s: in integers, the
\* sum over s of multinomial(need) * 6^(5-k) is 6^5.
C8_RowSumsToOne ==
    pc = "row" =>
        /\ \A s \in Hands : table[s] = ExactEntry(hold, roll, s)
        /\ SumOverHands(table) = Scale

\* a row of a hold that keeps two dice and rerolls three has been filled: from
\* (1,1,2,3,4) keeping the two 1s, three fresh dice give (1,1,1,2,3) in 6 of 216 ways
C8_Witness ==
    /\ pc = "row"
    /\ hold = 24
    /\ roll = <<1, 1, 2, 3, 4>>
    /\ table[<<1, 1, 1, 2, 3>>] = 6 * 36
    /\ table[<<2, 2, 2, 2, 2>>] = 0

\* C9: hold index 0 keeps no die; its row is the same for all 252 hands r and
\* is the weight vector w, with w[s] = multinomial(count(s)) / 6^5.
C9_WeightIsHoldNoneRow ==
    /\ \A j \in 1..NumDice : ~HoldOf(0)[j]
    /\ (pc = "row" /\ hold = 0) =>
          \A s \in Hands :
              /\ table[s] = weight_vector(s)
              /\ weight_vector(s) = TrueMultinomial(MultVec(s))

\* the hold-none row of a hand other than the first has been filled
C9_Witness ==
    /\ pc = "row"
    /\ hold = 0
    /\ roll = <<2, 3, 4, 6, 6>>
    /\ table[<<1, 2, 3, 4, 5>>] = 120
    /\ weight_vector(<<1, 1, 1, 1, 1>>) = 1


(***************************************************************************)
(* The reroll step of score_state:                                         *)
(*     score_options = np.dot(self.prop_tensor, score_vector)              *)
(*     score_vector = score_options.max(axis=0)                            *)
(* One application multiplies the scale of the vector by Scale.            *)
(***************************************************************************)
\* np.dot(self.prop_tensor, v)[h, r]
\* the counts [S.count(x) for x in die_spots] of every hand, computed once
Six(F(_)) == <<F(1), F(2), F(3), F(4), F(5), F(6)>>
CountsTab ==
    Six(LAMBDA a : Six(LAMBDA b : Six(LAMBDA c : Six(LAMBDA d : Six(LAMBDA e :
        CountsOf(<<a, b, c, d, e>>))))))
HandCounts(s) == CountsTab[s[1]][s[2]][s[3]][s[4]][s[5]]

\* sum_s transition_probability(hold, R, s) * v[s], the counts of the kept
\* pips taken once for the row
dot_kept(kept_counts, v) ==
    SumHands(LAMBDA s : probability_of(NeedCounts(HandCounts(s), kept_counts)) * v[s])

dot_row(h, r, v) == dot_kept(CountsOf(KeptFrom(r, HoldOf(h), 1)), v)

MinOf(Z) == CHOOSE m \in Z : \A x \in Z : m <= x

reroll_step_min(v, r) == MinOf({dot_row(h, r, v) : h \in HoldIndices})

\* score_options.max(axis=0)[r]
reroll_step(v, r) == MaxOf({dot_row(h, r, v) : h \in HoldIndices})

\* the score vectors the step is applied to: the column of the roll-score
\* table of one category (what best_score yields when only that category is
\* open and the table holds 0), for Full house, Large straight and Chance
RerollColumns == {8, 10, 12}

InitReroll ==
    /\ pc = "scored"
    /\ roll \in Hands
    /\ \E c \in RerollColumns : table = [s \in Hands |-> ScoreOf(s, c)]
    /\ hold = Idle /\ state = 0
    /\ scores = Idle /\ upper = Idle /\ out = Idle
    /\ forward_values = << >> /\ pos = 0 /\ reads = {}
    /\ credited = 0 /\ rawUpper = 0

\* the component for hand `roll` of one pass of the loop `for i in range(2)`
RerollStep ==
    /\ pc = "scored"
    /\ out' = reroll_step(table, roll)
    /\ pc' = "rerolled"
    /\ UNCHANGED <<roll, hold, state, table, scores, upper, forward_values, pos,
                   reads, credited, rawUpper>>

NextReroll == RerollStep

SpecReroll == InitReroll /\ [][NextReroll]_vars

KeepAll == CHOOSE h \in HoldIndices : \A j \in 1..NumDice : HoldOf(h)[j]

\* C10: one application of the reroll step lowers no component: the keep-all
\* pattern is among the 32, its row for r puts probability 1 on r and 0 on
\* every other hand, and max_h sum_s P[h, r, s] * v[s] >= v[r].
C10_RerollMonotone ==
    /\ \E h \in HoldIndices : \A j \in 1..NumDice : HoldOf(h)[j]
    /\ pc = "rerolled" =>
          /\ \A s \in Hands :
                prop_tensor(KeepAll, roll, s) = IF s = roll THEN Scale ELSE 0
          /\ out >= Scale * table[roll]

\* from (1,2,3,4,6) with the Large straight column, rerolling the 6 wins 40 with
\* probability 1/6, strictly more than the 0 of standing
C10_Witness ==
    /\ pc = "rerolled"
    /\ roll = <<1, 2, 3, 4, 6>>
    /\ table[<<1, 2, 3, 4, 5>>] = 40
    /\ table[roll] = 0
    /\ out * 6 = 40 * Scale


(***************************************************************************)
(* Game states: a 19-bit integer, the low 13 bits the open categories,     *)
(* the next 6 the upper-section total capped at 63.                        *)
(***************************************************************************)
CatBits == 13
OpenMask == 2 ^ CatBits                   \* 0x1FFF + 1

\* state >> 13
upper_score(s) == s \div OpenMask

\* state & 0x1FFF
open_cats(s) == s % OpenMask

\* state >> i & 1
bit(s, i) == (s \div (2 ^ i)) % 2

OpenSet(s) == {i \in categories : bit(s, i) = 1}

\* bin(x & 0x1FFF).count("1")
popcount(s) == Cardinality(OpenSet(s))

(***************************************************************************)
(* Values of the table (numpy doubles).  A value is NaN, an integer kept   *)
(* exactly, or a positive real that is no integer multiple of the model's  *)
(* scale (the contraction of a non-zero score vector: a multiple of        *)
(* 6^-15), of which the model keeps only that it is a positive number.     *)
(***************************************************************************)
NaN == <<"nan", 0>>
Num(n) == <<"num", n>>
PosReal == <<"pos", 0>>

IsNaN(v) == v[1] = "nan"

\* forward_scores[new_state] + self.scores[cat]
PyAdd(v, n) == IF v[1] = "num" THEN Num(v[2] + n) ELSE v

PyMax_keep_last(best, value) == IF IsNaN(value) THEN best ELSE value

\* max(best, value): value replaces best only if value > best, which is False
\* for NaN
PyMax(best, value) ==
    IF IsNaN(value) THEN best
    ELSE IF best[1] = "num" /\ value[1] = "num"
      THEN (IF value[2] > best[2] THEN value ELSE best)
    ELSE PosReal

\* forward_scores[s] of a table kept sparsely: the entries never written are NaN
\* (np.full(2**19, np.nan))
FV(fv, s) == IF s \in DOMAIN fv THEN fv[s] ELSE NaN

(***************************************************************************)
(* DiceRoll.best_score                                                     *)
(***************************************************************************)
Min2(a, b) == IF a < b THEN a ELSE b

new_state_of_no_clear(r, s, i) ==
    LET upper_total == upper_score(s) + UpperOf(r, i)
        new_upper == Min2(upper_total, UpperCap)
    IN  new_upper * OpenMask + open_cats(s)

\* upper_total = upper_score(state) + self.upper[cat]
\* new_upper = min(upper_total, 63)
\* new_open = (state & ~(1 << i)) & 0x1FFF        (bit i is set)
\* new_state = new_upper << 13 | new_open
new_state_of(r, s, i) ==
    LET upper_total == upper_score(s) + UpperOf(r, i)
        new_upper == Min2(upper_total, UpperCap)
        new_open == open_cats(s) - 2 ^ i
    IN  new_upper * OpenMask + new_open

cat_value_with_bonus(r, s, i, fv) ==
    LET new_upper == upper_score(new_state_of(r, s, i))
        bonus == IF new_upper >= UpperCap /\ upper_score(s) < UpperCap
                   THEN UpperBonus ELSE 0
    IN  PyAdd(FV(fv, new_state_of(r, s, i)), ScoreOf(r, i) + bonus)

\* value = forward_scores[new_state] + self.scores[cat]
cat_value(r, s, i, fv) == PyAdd(FV(fv, new_state_of(r, s, i)), ScoreOf(r, i))

\* the loop  for i, cat in enumerate(categories): if state >> i & 1: ...
RECURSIVE best_score_loop(_, _, _, _, _)
best_score_loop(best, i, r, s, fv) ==
    IF i >= NumCategories THEN best
    ELSE best_score_loop(
             IF bit(s, i) = 1 THEN PyMax(best, cat_value(r, s, i, fv)) ELSE best,
             i + 1, r, s, fv)

best_score(r, s, fv) == best_score_loop(Num(0), 0, r, s, fv)

\* the entries of forward_scores that best_score reads, for every roll
reads_of(s) == {new_state_of(r, s, i) : r \in Hands, i \in OpenSet(s)}

(***************************************************************************)
(* Specification of best_score as a function of (roll, state, table)       *)
(***************************************************************************)
\* tables of non-negative integers, by number
TableEntry(k, s) ==
    IF k = 0 THEN 0
    ELSE k * (3 * upper_score(s) + 7 * popcount(s) + (open_cats(s) % 5))

NumTables == 3

BestUppers == {0, 30, 58, 62, 63}
BestOpens == {0, 1, 32, 48, 63, 2048, 4096, 4128, 6176, 8191}

InitBest ==
    /\ pc = "call"
    /\ \E u \in BestUppers, m \in BestOpens : state = u * OpenMask + m
    /\ \E k \in 0..(NumTables - 1) :
          table = [s \in reads_of(state) |-> Num(TableEntry(k, s))]
    /\ roll \in Hands
    /\ hold = Idle
    /\ scores = Idle /\ upper = Idle /\ out = Idle
    /\ forward_values = << >> /\ pos = 0 /\ reads = {}
    /\ credited = 0 /\ rawUpper = 0

BestScore ==
    /\ pc = "call"
    /\ out' = best_score(roll, state, table)
    /\ pc' = "returned"
    /\ UNCHANGED <<roll, hold, state, table, scores, upper, forward_values, pos,
                   reads, credited, rawUpper>>

NextBest == BestScore

SpecBest == InitBest /\ [][NextBest]_vars

\* the transition of the claim, on the fields of the state
ClaimU(r, c) == IF c \in 0..5 THEN TableScore(r, c) ELSE 0
ClaimNewU(r, s, c) == Min2(upper_score(s) + ClaimU(r, c), UpperCap)
ClaimNewState(r, s, c) ==
    ClaimNewU(r, s, c) * OpenMask
      + SumSeq([i \in 1..CatBits |-> IF i - 1 # c /\ bit(s, i - 1) = 1 THEN 2 ^ (i - 1) ELSE 0])
ClaimBonus(r, s, c) ==
    IF ClaimNewU(r, s, c) >= UpperCap /\ upper_score(s) < UpperCap THEN UpperBonus ELSE 0

\* C1 as claimed: best_score returns the maximum over the open categories c of
\* S[r,c] + bonus + V[new_state], bonus = 35 when the capped upper total
\* reaches 63 at this transition, and 0 when no category is open.
C1_BestScoreWithBonus ==
    pc = "returned" =>
        out = IF OpenSet(state) = {} THEN Num(0)
              ELSE Num(MaxOf({TableScore(roll, c) + ClaimBonus(roll, state, c)
                                + table[ClaimNewState(roll, state, c)][2]
                              : c \in OpenSet(state)}))

\* C1 as amended: best_score returns the maximum over the open categories c of
\* S[r,c] + V[new_state], with no bonus term, and 0 when no category is open.
C1_BestScoreNoBonus ==
    pc = "returned" =>
        out = IF OpenSet(state) = {} THEN Num(0)
              ELSE Num(MaxOf({TableScore(roll, c)
                                + table[ClaimNewState(roll, state, c)][2]
                              : c \in OpenSet(state)}))

\* best_score has returned for a roll of five sixes in a state where Sixes is
\* open and the 30 points take the upper total from 58 past 63
C1_Witness ==
    /\ pc = "returned"
    /\ roll = <<6, 6, 6, 6, 6>>
    /\ state = 58 * OpenMask + 32
    /\ out = Num(30 + table[UpperCap * OpenMask][2])


(***************************************************************************)
(* StateAnalyser.score_state                                               *)
(***************************************************************************)
terminal_value_off_by_one(s) ==
    IF upper_score(s) < UpperCap - 1 THEN Num(0) ELSE Num(UpperBonus)

\* return 0 if upper_score(state) < 63 else 35
terminal_value(s) == IF upper_score(s) < UpperCap THEN Num(0) ELSE Num(UpperBonus)

\* the two reroll steps and the product with the weight vector, on the values
\* best_score gave for the 252 rolls: the zero vector gives exactly 0; any
\* other vector (its entries are numbers >= 0, best_score never returns NaN)
\* gives a positive real
contraction(score_values) ==
    IF score_values = {Num(0)} THEN Num(0) ELSE PosReal

score_state(s, fv) ==
    IF open_cats(s) = 0
      THEN terminal_value(s)
      ELSE contraction({best_score(r, s, fv) : r \in Hands})

(***************************************************************************)
(* StateAnalyser.evaluate_forward_values: all 2^19 states, stably sorted   *)
(* by the popcount of the open mask, each written once                     *)
(***************************************************************************)
\* the next larger 13-bit mask with as many bits set, or -1: the lowest run
\* of set bits b..e gives up its top bit to e+1 and drops to the bottom
next_mask(m) ==
    LET open == OpenSet(m)
        b == CHOOSE i \in open : \A j \in open : i <= j
        e == CHOOSE i \in open :
                 /\ \A j \in b..i : j \in open
                 /\ (i + 1) \notin open
        moved == (open \ (b..e)) \cup {e + 1} \cup (0..(e - b - 1))
    IN  IF open = {} \/ e + 1 >= CatBits THEN -1
        ELSE SumSeq([i \in 1..CatBits |-> IF (i - 1) \in moved THEN 2 ^ (i - 1) ELSE 0])

\* the state after s in all_states (sorted by popcount, then by value, the
\* sort being stable), or -1 after the last
next_in_order(s) ==
    LET m == open_cats(s)
        u == upper_score(s)
        p == popcount(s)
    IN  IF next_mask(m) # -1 THEN u * OpenMask + next_mask(m)
        ELSE IF u < UpperCap THEN (u + 1) * OpenMask + (2 ^ p - 1)
        ELSE IF p < CatBits THEN 2 ^ (p + 1) - 1
        ELSE -1

\* the length of the prefix of all_states the model runs the loop over
MaxStates == 960

InitDP ==
    /\ pc = "dp"
    /\ forward_values = << >>
    /\ state = 0
    /\ pos = 0
    /\ reads = {}
    /\ out = Idle
    /\ roll = Idle /\ hold = Idle /\ table = Idle
    /\ scores = Idle /\ upper = Idle
    /\ credited = 0 /\ rawUpper = 0

\* one pass of  for state in all_states: self.forward_values[state] = self.score_state(state)
\* reads: the entries score_state read, each with the value it held when read
DPStep ==
    /\ pc = "dp"
    /\ pos < MaxStates
    /\ state # -1
    /\ reads' = {<<s, FV(forward_values, s)>> : s \in reads_of(state)}
    /\ forward_values' =
          [s \in DOMAIN forward_values \cup {state} |->
              IF s = state THEN score_state(state, forward_values)
                           ELSE forward_values[s]]
    /\ out' = state
    /\ state' = next_in_order(state)
    /\ pos' = pos + 1
    /\ UNCHANGED <<pc, roll, hold, table, scores, upper, credited, rawUpper>>

NextDP == DPStep

SpecDP == InitDP /\ [][NextDP]_vars

TerminalStates == {u * OpenMask : u \in 0..UpperCap}

\* C3: once the DP has passed the states with open mask 0, each of them holds
\* 0 or 35, and 35 exactly when its upper field is 63.
C3_TerminalValues ==
    /\ \A s \in DOMAIN forward_values :
          open_cats(s) = 0 =>
              /\ forward_values[s] \in {Num(0), Num(UpperBonus)}
              /\ forward_values[s] = Num(UpperBonus) <=> upper_score(s) = UpperCap
    /\ pos >= Cardinality(TerminalStates) => TerminalStates \subseteq DOMAIN forward_values

\* all 64 terminal states are written, the one with upper 63 holding 35
C3_Witness ==
    /\ pos > Cardinality(TerminalStates)
    /\ forward_values[UpperCap * OpenMask] = Num(UpperBonus)
    /\ forward_values[(UpperCap - 1) * OpenMask] = Num(0)

\* C7: every entry read while the value of a state s' is computed belongs to
\* the open mask of s' with exactly one set bit cleared (so to a strictly
\* smaller popcount), and is written (no longer NaN) when it is read.
C7_ReadsAreWritten ==
    pos > 0 =>
        \A rd \in reads :
            /\ popcount(rd[1]) < popcount(out)
            /\ \E i \in OpenSet(out) : open_cats(rd[1]) = open_cats(out) - 2 ^ i
            /\ ~IsNaN(rd[2])

\* a state with two open categories has been computed from entries of states
\* with one open category
C7_Witness ==
    /\ pos > 0
    /\ popcount(out) = 2
    /\ \E rd \in reads : popcount(rd[1]) = 1 /\ rd[2] = PosReal


(***************************************************************************)
(* Querying a solver built with evaluate_forward_values=False (the         *)
(* default of StateAnalyser.__init__): forward_values is all NaN and       *)
(* score_state is called for the state asked about.                        *)
(***************************************************************************)
QueryOpens == {0, 1, 32, 4096}
QueryStates == {u * OpenMask + m : u \in 0..UpperCap, m \in QueryOpens}

InitQuery ==
    /\ pc = "built"
    /\ forward_values = << >>
    /\ state = 0 /\ pos = 0 /\ reads = {} /\ out = Idle
    /\ roll = Idle /\ hold = Idle /\ table = Idle
    /\ scores = Idle /\ upper = Idle
    /\ credited = 0 /\ rawUpper = 0

Query ==
    /\ pc = "built"
    /\ \E s \in QueryStates :
          /\ state' = s
          /\ out' = score_state(s, forward_values)
          /\ reads' = {<<x, FV(forward_values, x)>> : x \in reads_of(s)}
    /\ pc' = "queried"
    /\ UNCHANGED <<roll, hold, table, scores, upper, forward_values, pos,
                   credited, rawUpper>>

NextQuery == Query

SpecQuery == InitQuery /\ [][NextQuery]_vars

\* what evaluate_forward_values stores for s: score_state on a table in which
\* the entries it reads hold what the DP stored for them
RECURSIVE DPValue(_)
DPValue(s) == score_state(s, [x \in reads_of(s) |-> DPValue(x)])

\* C4: a query on a solver built without the full DP yields the value the
\* full DP produces, and no result is computed from entries that are still NaN.
C4_OnDemandEqualsDP ==
    pc = "queried" =>
        /\ out = DPValue(state)
        /\ \A rd \in reads : ~IsNaN(rd[2])

(***************************************************************************)
(* A path of category choices: from a state with upper total below 63,     *)
(* one roll is scored in one open category per step until no category is   *)
(* open.  credited is what the accumulated value holds beyond the category *)
(* scores: at a transition, best_score's value of the chosen category less *)
(* the score and less the table entry; at the end, the terminal value.     *)
(***************************************************************************)
\* start states have at most MaxOpen open categories
MaxOpen == 2

PathUppers == {0, 33, 45, 52, 57, 58, 60, 62}

PathStarts ==
    {u * OpenMask + m : u \in PathUppers,
                        m \in {x \in 0..(OpenMask - 1) : popcount(x) <= MaxOpen}}

InitPath ==
    /\ pc = "play"
    /\ state \in PathStarts
    /\ credited = 0
    /\ rawUpper = upper_score(state)
    /\ forward_values = << >> /\ pos = 0 /\ reads = {} /\ out = Idle
    /\ roll = Idle /\ hold = Idle /\ table = Idle
    /\ scores = Idle /\ upper = Idle

\* the roll r is scored in the open category i
ScoreCategory ==
    /\ pc = "play"
    /\ \E r \in Hands, i \in OpenSet(state) :
          LET nxt == new_state_of(r, state, i)
              zero == [x \in {nxt} |-> Num(0)]
          IN  /\ credited' = credited + cat_value(r, state, i, zero)[2] - ScoreOf(r, i)
              /\ rawUpper' = rawUpper + UpperOf(r, i)
              /\ state' = nxt
    /\ UNCHANGED <<pc, roll, hold, table, scores, upper, out, forward_values, pos, reads>>

\* no category is open: the value of the terminal state is counted
Finish ==
    /\ pc = "play"
    /\ open_cats(state) = 0
    /\ credited' = credited + score_state(state, forward_values)[2]
    /\ pc' = "done"
    /\ UNCHANGED <<roll, hold, state, table, scores, upper, out, forward_values,
                   pos, reads, rawUpper>>

NextPath == ScoreCategory \/ Finish

SpecPath == InitPath /\ [][NextPath]_vars

\* C2: along every path from a state with upper total below 63 to a terminal
\* state, 35 is counted exactly once if the upper total reaches 63 on the path
\* and not at all if it never does; no path counts it twice.
C2_BonusOnce ==
    /\ credited \in {0, UpperBonus}
    /\ pc = "done" => credited = IF rawUpper >= UpperCap THEN UpperBonus ELSE 0

\* a finished path on which the upper total crossed 63 and went on growing
C2_Witness ==
    /\ pc = "done"
    /\ rawUpper > UpperCap + 5
    /\ credited = UpperBonus

=============================================================================
